---- MODULE Spec2Model ----
(***************************************************************************)
(* A model of FIDE_ratings.py: the per-player scraper get_fide_rating, the *)
(* JSON cache file (get_cached_ratings / cache_ratings), the batch fetch   *)
(* fetch_fide_ratings and the request handler show_ratings with its sort.  *)
(*                                                                         *)
(* Text is a sequence of one-character strings, and so is the text of the  *)
(* cache file; a byte that is no UTF-8 is the cell BadByte.                 *)
(***************************************************************************)
EXTENDS Integers, Sequences, FiniteSets, TLC

VARIABLES
    cacheFile,  \* CACHE_FILE on disk: Absent, Unopenable or File(text)
    last,       \* what the latest show_ratings request did (NoRun before the first)
    prev,       \* how the request before the latest one left the cache
    req,        \* latest direct call of get_fide_rating: its arguments
    rec,        \* ... and what it returned
    pc,         \* concurrent requests: position of each request
    loc         \* concurrent requests: locals of each request

vars == <<cacheFile, last, prev, req, rec, pc, loc>>

(***************************** bounds **************************************)
MaxEntries == 2     \* rating entries in one profile page
MaxIds == 2         \* identifiers in ratings.txt

(***************************** text ****************************************)
WS == {" ", "\n"}

Digits == {"0", "1", "2", "3", "4", "5", "6", "7", "8", "9"}

DigitVal(c) ==
    CASE c = "0" -> 0 [] c = "1" -> 1 [] c = "2" -> 2 [] c = "3" -> 3
      [] c = "4" -> 4 [] c = "5" -> 5 [] c = "6" -> 6 [] c = "7" -> 7
      [] c = "8" -> 8 [] c = "9" -> 9

RECURSIVE LStrip(_)
LStrip(s) == IF s # <<>> /\ Head(s) \in WS THEN LStrip(Tail(s)) ELSE s

RECURSIVE RStrip(_)
RStrip(s) ==
    IF s # <<>> /\ s[Len(s)] \in WS THEN RStrip(SubSeq(s, 1, Len(s) - 1)) ELSE s

\* str.strip()
Strip(s) == RStrip(LStrip(s))

\* str.split(): the maximal runs of non-whitespace characters, in order
RECURSIVE SplitFrom(_, _, _)
SplitFrom(s, cur, acc) ==
    IF s = <<>> THEN (IF cur = <<>> THEN acc ELSE Append(acc, cur))
    ELSE IF Head(s) \in WS
         THEN SplitFrom(Tail(s), <<>>, IF cur = <<>> THEN acc ELSE Append(acc, cur))
         ELSE SplitFrom(Tail(s), Append(cur, Head(s)), acc)

Split(s) == SplitFrom(s, <<>>, <<>>)

\* the digits of an int literal: digits with single underscores between them
ValidDigits(s) ==
    /\ s # <<>>
    /\ s[1] \in Digits
    /\ s[Len(s)] \in Digits
    /\ \A i \in 1..Len(s) : s[i] \in Digits \cup {"_"}
    /\ \A i \in 1..(Len(s) - 1) : ~(s[i] = "_" /\ s[i + 1] = "_")

RECURSIVE DigitsValue(_, _)
DigitsValue(s, acc) ==
    IF s = <<>> THEN acc
    ELSE IF Head(s) = "_" THEN DigitsValue(Tail(s), acc)
    ELSE DigitsValue(Tail(s), 10 * acc + DigitVal(Head(s)))

\* an optional sign and the digits after it
ParseSigned(sign, body) ==
    IF ValidDigits(body)
    THEN [ok |-> TRUE,
          val |-> IF sign = "-" THEN 0 - DigitsValue(body, 0) ELSE DigitsValue(body, 0)]
    ELSE [ok |-> FALSE]

ParseStripped(t) ==
    IF t # <<>> /\ Head(t) \in {"-", "+"} THEN ParseSigned(Head(t), Tail(t))
    ELSE ParseSigned("+", t)

\* int(text): [ok |-> TRUE, val |-> n], or [ok |-> FALSE] for ValueError
ParseInt(text) == ParseStripped(Strip(text))

(***************************** records *************************************)
\* values as Python and JSON have them: str, int, None, list; a player record
\* (a dict with the five keys) is a record with these five fields
Str(chars) == [tag |-> "str", chars |-> chars]
Rated(n) == [tag |-> "int", val |-> n]
None == [tag |-> "None"]
List(items) == [tag |-> "list", items |-> items]

\* a rating field is the string "Unrated" or an int
Unrated == Str(<<"U", "n", "r", "a", "t", "e", "d">>)

PlayerRecord(name, fide_id, standard, rapid, blitz) ==
    [name |-> name, fide_id |-> fide_id,
     standard |-> standard, rapid |-> rapid, blitz |-> blitz]

\* f"Player ID {fide_id}"
PlayerIdName(fide_id) == <<"P", "l", "a", "y", "e", "r", " ", "I", "D", " ">> \o fide_id

Sentinel(fide_id) ==
    PlayerRecord(PlayerIdName(fide_id), fide_id, Unrated, Unrated, Unrated)

\* an exception leaving a function
Raised(exc) == [raised |-> exc]
IsRaised(v) == "raised" \in DOMAIN v

(***************************** get_fide_rating *****************************)
\* soup.find(...) found nothing
NoNode == [node |-> FALSE]
Node(text) == [node |-> TRUE, text |-> text]

STD == <<"s", "t", "d">>
RAPID == <<"r", "a", "p", "i", "d">>
BLITZ == <<"b", "l", "i", "t", "z">>

\* mutant: the negative check is missing
RatingOfParseNoNegativeCheck(p) == IF p.ok THEN Rated(p.val) ELSE Unrated

\* rating_value after the try/except around int(rating_text), p being what
\* int(rating_text) gave: a negative number and a ValueError both end Unrated
RatingOfParse(p) ==
    IF p.ok THEN (IF p.val < 0 THEN Unrated ELSE Rated(p.val)) ELSE Unrated

RatingValue(rating_text) == RatingOfParse(ParseInt(rating_text))

\* the if/elif chain that stores rating_value in the variable of its type
AssignRating(rating_type, rating_value, acc) ==
    IF rating_type = STD THEN [acc EXCEPT !.standard = rating_value]
    ELSE IF rating_type = RAPID THEN [acc EXCEPT !.rapid = rating_value]
    ELSE IF rating_type = BLITZ THEN [acc EXCEPT !.blitz = rating_value]
    ELSE acc

\* rating_text is the last word of the entry's text; no word is an IndexError
ProcessWords(rating_type, words, acc) ==
    IF words = <<>> THEN [exc |-> "IndexError"]
    ELSE [exc |-> "none",
          acc |-> AssignRating(rating_type, RatingValue(words[Len(words)]), acc)]

\* one pass of the loop body over entry e with the three ratings so far in acc:
\* [exc |-> "none", acc |-> ...] or the exception the body raises; an entry
\* without label span makes entry.find(...).text an AttributeError
ProcessEntry(e, acc) ==
    IF ~e.desc.node THEN [exc |-> "AttributeError"]
    ELSE ProcessWords(Strip(e.desc.text), Split(Strip(e.text)), acc)

RECURSIVE ProcessEntries(_, _)

ProcessRest(r, rest) == IF r.exc # "none" THEN r ELSE ProcessEntries(rest, r.acc)

ProcessEntries(entries, acc) ==
    IF entries = <<>> THEN [exc |-> "none", acc |-> acc]
    ELSE ProcessRest(ProcessEntry(Head(entries), acc), Tail(entries))

\* response.raise_for_status(): HTTPError for 4xx and 5xx
RaiseForStatus(status) == status >= 400 /\ status < 600

NoRatings == [standard |-> Unrated, rapid |-> Unrated, blitz |-> Unrated]

\* the ratings of the page: those of the container's entries, or all Unrated
\* when there is no container
PageRatings(body) ==
    IF body.cont.node THEN ProcessEntries(body.cont.entries, NoRatings)
    ELSE [exc |-> "none", acc |-> NoRatings]

NamedRecord(fide_id, name, r) ==
    IF r.exc # "none" THEN [exc |-> r.exc]
    ELSE [exc |-> "none",
          ret |-> PlayerRecord(name, fide_id, r.acc.standard, r.acc.rapid, r.acc.blitz)]

\* the body of the try block: [exc |-> "none", ret |-> record] or the exception
TryBlock(fide_id, net) ==
    IF net.kind # "response" THEN [exc |-> net.kind]
    ELSE IF RaiseForStatus(net.status) THEN [exc |-> "HTTPError"]
    ELSE IF ~net.body.title.node THEN [exc |-> "none", ret |-> Sentinel(fide_id)]
    ELSE NamedRecord(fide_id, Strip(net.body.title.text), PageRatings(net.body))

\* the three except clauses: HTTPError, RequestException, Exception
RequestExceptions == {"HTTPError", "ConnectionError", "ChunkedEncodingError"}
Exceptions == RequestExceptions \cup {"AttributeError", "IndexError"}

\* mutant: the last clause, except Exception, is missing
HandledRequestsOnly(exc) == exc \in RequestExceptions

Handled(exc) == exc \in Exceptions

\* what get_fide_rating returns once the try block ended as r
AfterTry(fide_id, r) ==
    IF r.exc = "none" THEN r.ret
    ELSE IF Handled(r.exc) THEN Sentinel(fide_id)
    ELSE Raised(r.exc)

GetFideRating(fide_id, net) == AfterTry(fide_id, TryBlock(fide_id, net))

(***************************** json ****************************************)
\* The text json.dump writes and json.load reads, character by character,
\* with the separators ", " and ": " of json.dump.  A dict is a player record
\* with its five keys in the order the code writes them.  Files hold no
\* floats, booleans or \u escapes, and no other whitespace.
Q == "\""
BS == "\\"

IsPlayer(v) == "fide_id" \in DOMAIN v

RECURSIVE ToDigits(_)
ToDigits(n) ==
    IF n < 10 THEN <<CHOOSE c \in Digits : DigitVal(c) = n>>
    ELSE Append(ToDigits(n \div 10), CHOOSE c \in Digits : DigitVal(c) = n % 10)

DumpInt(n) == IF n < 0 THEN <<"-">> \o ToDigits(0 - n) ELSE ToDigits(n)

RECURSIVE EscapeChars(_)
EscapeChars(chars) ==
    IF chars = <<>> THEN <<>>
    ELSE (IF Head(chars) \in {Q, BS} THEN <<BS, Head(chars)>>
          ELSE IF Head(chars) = "\n" THEN <<BS, "n">>
          ELSE <<Head(chars)>>) \o EscapeChars(Tail(chars))

DumpStr(chars) == <<Q>> \o EscapeChars(chars) \o <<Q>>

\* the keys of a player record
NAME == <<"n", "a", "m", "e">>
FIDE_ID == <<"f", "i", "d", "e", "_", "i", "d">>
STANDARD == <<"s", "t", "a", "n", "d", "a", "r", "d">>

\* a key and the separator after it; the separator before it too, unless first
FirstKey(key) == DumpStr(key) \o <<":", " ">>
NextKey(key) == <<",", " ">> \o FirstKey(key)

RECURSIVE DumpValue(_)
RECURSIVE DumpItems(_)
DumpValue(v) ==
    IF IsPlayer(v)
    THEN <<"{">> \o FirstKey(NAME) \o DumpStr(v.name)
         \o NextKey(FIDE_ID) \o DumpStr(v.fide_id)
         \o NextKey(STANDARD) \o DumpValue(v.standard)
         \o NextKey(RAPID) \o DumpValue(v.rapid)
         \o NextKey(BLITZ) \o DumpValue(v.blitz) \o <<"}">>
    ELSE IF v.tag = "str" THEN DumpStr(v.chars)
    ELSE IF v.tag = "int" THEN DumpInt(v.val)
    ELSE IF v.tag = "None" THEN <<"n", "u", "l", "l">>
    ELSE <<"[">> \o DumpItems(v.items) \o <<"]">>

DumpItems(items) ==
    IF items = <<>> THEN <<>>
    ELSE IF Len(items) = 1 THEN DumpValue(items[1])
    ELSE DumpValue(items[1]) \o <<",", " ">> \o DumpItems(Tail(items))

\* json.dumps
Dumps(v) == DumpValue(v)

\* parsers read text s from index i: [ok |-> TRUE, val |-> v, next |-> j], or
\* [ok |-> FALSE] where the decoder raises JSONDecodeError
Fail == [ok |-> FALSE]
At(s, i) == IF i <= Len(s) THEN s[i] ELSE "EOF"

\* text s goes on with lit at index i
Has(s, i, lit) == i + Len(lit) - 1 <= Len(s) /\ SubSeq(s, i, i + Len(lit) - 1) = lit

RECURSIVE ScanStr(_, _, _)
ScanStr(s, j, acc) ==
    IF j > Len(s) THEN Fail
    ELSE IF s[j] = Q THEN [ok |-> TRUE, val |-> acc, next |-> j + 1]
    ELSE IF s[j] = BS
         THEN IF At(s, j + 1) \in {Q, BS} THEN ScanStr(s, j + 2, Append(acc, s[j + 1]))
              ELSE IF At(s, j + 1) = "n" THEN ScanStr(s, j + 2, Append(acc, "\n"))
              ELSE Fail
    ELSE IF s[j] = "\n" THEN Fail
    ELSE ScanStr(s, j + 1, Append(acc, s[j]))

\* a string, the opening quote at i
ParseStr(s, i) == IF At(s, i) = Q THEN ScanStr(s, i + 1, <<>>) ELSE Fail

RECURSIVE DigitRunEnd(_, _)
DigitRunEnd(s, j) == IF At(s, j) \in Digits THEN DigitRunEnd(s, j + 1) ELSE j

\* the digits s[k..e-1] of a number, negative when neg
NumFrom(s, neg, k, e) ==
    IF e = k THEN Fail
    ELSE [ok |-> TRUE,
          val |-> IF neg THEN 0 - DigitsValue(SubSeq(s, k, e - 1), 0)
                  ELSE DigitsValue(SubSeq(s, k, e - 1), 0),
          next |-> e]

UnsignedNum(s, neg, k) ==
    NumFrom(s, neg, k, IF At(s, k) = "0" THEN k + 1 ELSE DigitRunEnd(s, k))

\* an integer: -?(0|[1-9][0-9]*)
ParseNum(s, i) == IF At(s, i) = "-" THEN UnsignedNum(s, TRUE, i + 1) ELSE UnsignedNum(s, FALSE, i)

RECURSIVE ParseValue(_, _)
RECURSIVE ParseItems(_, _, _)

\* a player dict, field by field: each operator has the fields read so far
PlayerEnd(s, a, b, c, d, e) ==
    IF ~e.ok \/ At(s, e.next) # "}" THEN Fail
    ELSE [ok |-> TRUE, val |-> PlayerRecord(a.val, b.val, c.val.v, d.val.v, e.val.v),
          next |-> e.next + 1]

PlayerBlitz(s, a, b, c, d) ==
    IF ~d.ok \/ ~Has(s, d.next, NextKey(BLITZ)) THEN Fail
    ELSE PlayerEnd(s, a, b, c, d, ParseValue(s, d.next + Len(NextKey(BLITZ))))

PlayerRapid(s, a, b, c) ==
    IF ~c.ok \/ ~Has(s, c.next, NextKey(RAPID)) THEN Fail
    ELSE PlayerBlitz(s, a, b, c, ParseValue(s, c.next + Len(NextKey(RAPID))))

PlayerStandard(s, a, b) ==
    IF ~b.ok \/ ~Has(s, b.next, NextKey(STANDARD)) THEN Fail
    ELSE PlayerRapid(s, a, b, ParseValue(s, b.next + Len(NextKey(STANDARD))))

PlayerId(s, a) ==
    IF ~a.ok \/ ~Has(s, a.next, NextKey(FIDE_ID)) THEN Fail
    ELSE PlayerStandard(s, a, ParseStr(s, a.next + Len(NextKey(FIDE_ID))))

\* a player dict, the opening brace at i
ParsePlayer(s, i) ==
    IF ~Has(s, i + 1, FirstKey(NAME)) THEN Fail
    ELSE PlayerId(s, ParseStr(s, i + 1 + Len(FirstKey(NAME))))

\* a parsed value is boxed, [v |-> value], while it is handed on
Boxed(r) == IF r.ok THEN [ok |-> TRUE, val |-> [v |-> r.val], next |-> r.next] ELSE Fail
BoxedStr(r) == IF r.ok THEN [ok |-> TRUE, val |-> [v |-> Str(r.val)], next |-> r.next] ELSE Fail
BoxedInt(r) == IF r.ok THEN [ok |-> TRUE, val |-> [v |-> Rated(r.val)], next |-> r.next] ELSE Fail

ParseValue(s, i) ==
    IF At(s, i) = "{" THEN Boxed(ParsePlayer(s, i))
    ELSE IF At(s, i) = "["
         THEN IF At(s, i + 1) = "]"
              THEN [ok |-> TRUE, val |-> [v |-> List(<<>>)], next |-> i + 2]
              ELSE ParseItems(s, i + 1, <<>>)
    ELSE IF At(s, i) = Q THEN BoxedStr(ParseStr(s, i))
    ELSE IF At(s, i) = "n"
         THEN IF Has(s, i, <<"n", "u", "l", "l">>)
              THEN [ok |-> TRUE, val |-> [v |-> None], next |-> i + 4]
              ELSE Fail
    ELSE BoxedInt(ParseNum(s, i))

ItemsAfter(s, r, acc) ==
    IF ~r.ok THEN Fail
    ELSE IF Has(s, r.next, <<",", " ">>) THEN ParseItems(s, r.next + 2, Append(acc, r.val.v))
    ELSE IF At(s, r.next) = "]"
         THEN [ok |-> TRUE, val |-> [v |-> List(Append(acc, r.val.v))], next |-> r.next + 1]
    ELSE Fail

\* the items of a list after "[" or ",", up to and including "]"
ParseItems(s, i, acc) == ItemsAfter(s, ParseValue(s, i), acc)

\* a byte that is not valid UTF-8
BadByte == "0xFF"

\* the whole text must be one value
WholeValue(text, r) ==
    IF r.ok /\ r.next = Len(text) + 1 THEN r.val.v ELSE Raised("JSONDecodeError")

\* json.load on a file opened in text mode (UTF-8): the value, or the exception
JsonLoad(text) ==
    IF \E i \in 1..Len(text) : text[i] = BadByte
    THEN Raised("UnicodeDecodeError")
    ELSE WholeValue(text, ParseValue(text, 1))

(***************************** the cache file ******************************)
\* CACHE_FILE: missing, a file with its text, or a path that exists and cannot
\* be opened (a directory of that name): open raises IOError for it
Absent == [kind |-> "absent"]
File(text) == [kind |-> "file", text |-> text]
Unopenable == [kind |-> "dir"]

\* except json.JSONDecodeError: return None
NoneIfUndecodable(v) == IF v = Raised("JSONDecodeError") THEN None ELSE v

\* mutant: an empty cached value counts as no cache (return json.load(f) or None)
GetCachedRatingsOrNone(file) ==
    IF file.kind # "file" THEN None
    ELSE IF IsRaised(JsonLoad(file.text)) THEN NoneIfUndecodable(JsonLoad(file.text))
    ELSE IF JsonLoad(file.text) = List(<<>>) THEN None
    ELSE JsonLoad(file.text)

\* get_cached_ratings
GetCachedRatings(file) ==
    IF file.kind = "absent" THEN None
    ELSE IF file.kind = "dir" THEN None
    ELSE NoneIfUndecodable(JsonLoad(file.text))

\* what the file system does to one write of the cache: it works, open raises
\* IOError (the file stays as it was), or open truncates the file and the
\* write raises IOError before any text reaches it
WriteOutcomes == {[kind |-> "ok"], [kind |-> "open_fails"], [kind |-> "write_fails"]}

\* the outcomes a write to file can have
WritesTo(file) == IF file.kind = "dir" THEN {[kind |-> "open_fails"]} ELSE WriteOutcomes

NoWrite == [kind |-> "none"]

WrittenFile(file, text, w) ==
    IF w.kind = "ok" THEN File(text)
    ELSE IF w.kind = "open_fails" THEN file
    ELSE File(<<>>)

\* mutant: the IOError of a failed write is not caught
CacheRatingsUncaught(file, ratings, w) ==
    [file |-> WrittenFile(file, Dumps(ratings), w),
     exc |-> IF w.kind = "ok" THEN "none" ELSE "IOError"]

\* cache_ratings: the file afterwards, and the exception that leaves it
CacheRatings(file, ratings, w) ==
    [file |-> WrittenFile(file, Dumps(ratings), w), exc |-> "none"]

(***************************** fetch_fide_ratings **************************)
\* mutant: an empty identifier list gets a placeholder row
FetchedBatchPaddingEmpty(fide_ids, nets) ==
    IF fide_ids = <<>> THEN <<Sentinel(<<>>)>>
    ELSE [i \in 1..Len(fide_ids) |-> GetFideRating(fide_ids[i], nets[i])]

\* [get_fide_rating(fide_id) for fide_id in fide_ids], nets[i] being what the
\* network answers to the i-th call
FetchedBatch(fide_ids, nets) ==
    [i \in 1..Len(fide_ids) |-> GetFideRating(fide_ids[i], nets[i])]

\* the first exception a call of the list comprehension let through, if any
FirstRaised(ratings) ==
    ratings[CHOOSE i \in DOMAIN ratings :
               IsRaised(ratings[i]) /\ \A j \in 1..(i - 1) : ~IsRaised(ratings[j])]

\* ratings fetched: they are cached, then returned
CacheAndReturn(ratings, c, fide_ids, w) ==
    [ret |-> IF c.exc = "none" THEN List(ratings) ELSE Raised(c.exc),
     file |-> c.file, calls |-> fide_ids, write |-> w]

Fetched(ratings, fide_ids, file, w) ==
    IF \E i \in DOMAIN ratings : IsRaised(ratings[i])
    THEN [ret |-> FirstRaised(ratings), file |-> file, calls |-> fide_ids,
          write |-> NoWrite]
    ELSE CacheAndReturn(ratings, CacheRatings(file, List(ratings), w), fide_ids, w)

\* fetch_fide_ratings: what it returns (or raises), the file afterwards, the
\* identifiers it called get_fide_rating for, in order, and the write it made
FetchFideRatings(fide_ids, nets, file, w) ==
    Fetched(FetchedBatch(fide_ids, nets), fide_ids, file, w)

(***************************** the sort of show_ratings ********************)
\* characters in code point order, for comparing strings
Alphabet ==
    <<"\n", " ", Q, "+", ",", "-", "0", "1", "2", "3", "4", "5", "6", "7", "8", "9",
      "C", "D", "I", "M", "N", "P", "U", "X", "[", BS, "]", "_", "a", "b", "d", "e",
      "f", "g", "i", "l", "n", "o", "p", "r", "s", "t", "u", "y", "z", "{", "}">>

Ord(c) == CHOOSE i \in 1..Len(Alphabet) : Alphabet[i] = c

RECURSIVE StrCmp(_, _)
StrCmp(a, b) ==
    IF a = <<>> /\ b = <<>> THEN "eq"
    ELSE IF a = <<>> THEN "lt"
    ELSE IF b = <<>> THEN "gt"
    ELSE IF Ord(Head(a)) < Ord(Head(b)) THEN "lt"
    ELSE IF Ord(Head(a)) > Ord(Head(b)) THEN "gt"
    ELSE StrCmp(Tail(a), Tail(b))

\* comparing the keys (x['standard'] == "Unrated", x['standard']) of two
\* records with standard ratings a and b: "lt", "eq", "gt" or "TypeError"
KeyCmp(a, b) ==
    IF (a = Unrated) # (b = Unrated) THEN (IF b = Unrated THEN "lt" ELSE "gt")
    ELSE IF a = b THEN "eq"
    ELSE IF a.tag = "int" /\ b.tag = "int" THEN (IF a.val < b.val THEN "lt" ELSE "gt")
    ELSE IF a.tag = "str" /\ b.tag = "str" THEN StrCmp(a.chars, b.chars)
    ELSE "TypeError"

RECURSIVE InsertDescending(_, _)

Prepend(y, rest) == IF IsRaised(rest) THEN rest ELSE List(<<y>> \o rest.items)

InsertBy(c, x, sorted) ==
    IF c = "TypeError" THEN Raised("TypeError")
    ELSE IF c = "gt" THEN List(<<x>> \o sorted)
    ELSE Prepend(Head(sorted), InsertDescending(x, Tail(sorted)))

\* x is put in front of the first record of sorted that it exceeds: equal keys
\* keep their input order, as sorted(..., reverse=True) keeps them
InsertDescending(x, sorted) ==
    IF sorted = <<>> THEN List(<<x>>)
    ELSE InsertBy(KeyCmp(x.standard, Head(sorted).standard), x, sorted)

RECURSIVE SortFrom(_, _)
SortFrom(items, sorted) ==
    IF items = <<>> \/ IsRaised(sorted) THEN sorted
    ELSE SortFrom(Tail(items), InsertDescending(Head(items), sorted.items))

\* sorted(players, key=lambda x: (x['standard'] == "Unrated", x['standard']),
\*        reverse=True): the sorted list, or the TypeError of a value that is
\* no list of dicts or whose keys do not compare
SortedPlayers(players) ==
    IF players.tag # "list" THEN Raised("TypeError")
    ELSE IF \E i \in DOMAIN players.items : ~IsPlayer(players.items[i])
    THEN Raised("TypeError")
    ELSE SortFrom(players.items, List(<<>>))

\* not players
Falsy(v) ==
    \/ v = None
    \/ v.tag = "list" /\ v.items = <<>>
    \/ v.tag = "int" /\ v.val = 0
    \/ v.tag = "str" /\ v.chars = <<>>

NoDataPage == [table |-> "No player data available."]
TablePage(rows) == [table |-> "rows", rows |-> rows]

(***************************** show_ratings ********************************)
\* the table made of a sorted list, or the exception sorted raised
TableOf(sorted_players) ==
    IF IsRaised(sorted_players) THEN sorted_players
    ELSE TablePage(sorted_players.items)

\* the page for players, or the exception that ends the request
Render(players) ==
    IF IsRaised(players) THEN players
    ELSE IF Falsy(players) THEN NoDataPage
    ELSE TableOf(SortedPlayers(players))

\* what a request did, and the cache file it leaves
Ran(fide_ids, loaded, f) ==
    [file |-> f.file,
     run |-> [ran |-> TRUE, ids |-> fide_ids, loaded |-> loaded, calls |-> f.calls,
              write |-> f.write, players |-> f.ret, response |-> Render(f.ret)]]

\* the records of a cached snapshot whose identifier is in fide_ids
OnlyListed(players, fide_ids) ==
    IF players.tag = "list" /\ \A i \in DOMAIN players.items : IsPlayer(players.items[i])
    THEN List(SelectSeq(players.items,
                        LAMBDA r : \E k \in DOMAIN fide_ids : fide_ids[k] = r.fide_id))
    ELSE players

\* mutant: a cached snapshot is cut down to the identifiers now listed
FetchOrReuseValidating(players, fide_ids, nets, file, w) ==
    IF IsRaised(players) THEN [ret |-> players, file |-> file, calls |-> <<>>, write |-> NoWrite]
    ELSE IF players # None
    THEN [ret |-> OnlyListed(players, fide_ids), file |-> file, calls |-> <<>>,
          write |-> NoWrite]
    ELSE FetchFideRatings(fide_ids, nets, file, w)

\* if players is None: players = fetch_fide_ratings(fide_ids)
FetchOrReuse(players, fide_ids, nets, file, w) ==
    IF IsRaised(players) \/ players # None
    THEN [ret |-> players, file |-> file, calls |-> <<>>, write |-> NoWrite]
    ELSE FetchFideRatings(fide_ids, nets, file, w)

\* show_ratings once players = get_cached_ratings() has returned or raised
Served(players, file, fide_ids, nets, w) ==
    Ran(fide_ids, players, FetchOrReuse(players, fide_ids, nets, file, w))

\* one request: fide_ids is what ratings.txt holds; nets and w are what the
\* network and the file system do during it
ShowRatingsOn(file, fide_ids, nets, w) ==
    Served(GetCachedRatings(file), file, fide_ids, nets, w)

(***************************** inputs **************************************)
Ids == {<<"1", "5", "0">>, <<"2", "4", "1">>}

\* label spans of a rating entry: none, one without text, the three types (one
\* of them padded)
DescNodes ==
    {NoNode, Node(<<>>), Node(STD), Node(RAPID), Node(<<" ">> \o BLITZ \o <<"\n">>)}

\* what follows the label inside the entry
ValueTexts ==
    {<<"2", "8", "3", "0">>, <<"0">>, <<"-", "5">>, <<"1", "_", "0">>,
     <<"N", "o", "t", " ", "r", "a", "t", "e", "d">>, <<>>}

\* entry.text is the text of the whole entry, the label's included
EntryOf(desc, value) ==
    [desc |-> desc,
     text |-> (IF desc.node THEN desc.text ELSE <<>>) \o <<"\n">> \o value \o <<" ">>]

Entries == {EntryOf(d, v) : d \in DescNodes, v \in ValueTexts}

SeqsUpTo(S, n) == UNION {[1..k -> S] : k \in 0..n}

Containers == {NoNode} \cup {[node |-> TRUE, entries |-> es] : es \in SeqsUpTo(Entries, MaxEntries)}

Titles == {NoNode, Node(<<>>), Node(<<" ", "M", "a", "g", "n", "u", "s", "\n">>)}

Page(title, cont) == [title |-> title, cont |-> cont]

Response(status, body) == [kind |-> "response", status |-> status, body |-> body]

MagnusPage ==
    Page(Node(<<"M", "C">>),
         [node |-> TRUE,
          entries |-> <<EntryOf(Node(STD), <<"2", "8", "3", "0">>),
                        EntryOf(Node(RAPID), <<"2", "9", "0", "0">>),
                        EntryOf(Node(BLITZ), <<"N", "o", "t", " ", "r", "a", "t", "e", "d">>)>>])

\* everything requests.get can do for one URL
NetAll ==
    {[kind |-> "ConnectionError"], [kind |-> "ChunkedEncodingError"]}
    \cup {Response(st, MagnusPage) : st \in {404, 503}}
    \cup {Response(200, Page(t, c)) : t \in Titles, c \in Containers}

(***************************** idle values *********************************)
NoRun == [ran |-> FALSE]
NoCall == [called |-> FALSE]
NoProcs == [started |-> FALSE]

(***************************** requests, one after another *****************)
PageX ==
    Page(Node(<<"X">>),
         [node |-> TRUE, entries |-> <<EntryOf(Node(STD), <<"2", "5", "0", "0">>)>>])

\* the profile page the site holds for an identifier
PageOf(fide_id) == IF fide_id = <<"1", "5", "0">> THEN MagnusPage ELSE PageX

\* what the network answers to one call for fide_id during a request
NetFor(fide_id) == {[kind |-> "ConnectionError"], Response(200, PageOf(fide_id))}

\* the answers to the calls of one fetch cycle over fide_ids
NetSeqs(fide_ids) ==
    {nets \in [1..Len(fide_ids) -> UNION {NetFor(i) : i \in Ids}] :
        \A k \in 1..Len(fide_ids) : nets[k] \in NetFor(fide_ids[k])}

IdLists == SeqsUpTo(Ids, MaxIds)

\* a snapshot cached for another list of identifiers
StaleSnapshot ==
    List(<<PlayerRecord(<<"X">>, <<"7">>, Rated(2500), Unrated, Rated(0)),
           Sentinel(<<"8">>)>>)

\* the cache file when the first request arrives: missing, unopenable, cut
\* short, undecodable bytes, JSON that is no list of records, an empty and a
\* stale snapshot
InitFiles ==
    {Absent, Unopenable, File(SubSeq(Dumps(StaleSnapshot), 1, 9)),
     File(<<BadByte>>),
     File(Dumps(None)), File(Dumps(Rated(5))), File(Dumps(List(<<Rated(5)>>))),
     File(Dumps(List(<<>>))), File(Dumps(StaleSnapshot))}

Init ==
    /\ cacheFile \in InitFiles
    /\ last = NoRun
    /\ prev = "none"
    /\ req = NoCall
    /\ rec = NoCall
    /\ pc = NoProcs
    /\ loc = NoProcs

\* how a finished request left the cache, for the request after it
Summary(run) ==
    IF ~run.ran THEN "none"
    ELSE IF run.write.kind \in {"open_fails", "write_fails"} THEN "write_failed"
    ELSE "ok"

Finish(r) ==
    /\ last' = r.run
    /\ cacheFile' = r.file
    /\ prev' = Summary(last)
    /\ UNCHANGED <<req, rec, pc, loc>>

\* the rest of a request whose get_cached_ratings() gave players
Serve(players) ==
    \E fide_ids \in IdLists :
       \E nets \in IF players = None THEN NetSeqs(fide_ids) ELSE {<<>>},
          w \in IF players = None THEN WritesTo(cacheFile) ELSE {NoWrite} :
          Finish(Served(players, cacheFile, fide_ids, nets, w))

\* one request
ShowRatings == Serve(GetCachedRatings(cacheFile))

Next == ShowRatings

Spec == Init /\ [][Next]_vars

(***************************** requests at the same time *******************)
\* Two requests run show_ratings concurrently; nothing but the cache file is
\* shared and nothing locks it.  A step is one system call on the file: the
\* read of get_cached_ratings, the open(CACHE_FILE, 'w') of cache_ratings,
\* which truncates, and the write of the buffered text when the with block
\* closes the file, at that open file's own offset 0.  The file system does
\* not fail here.
Procs == {"r1", "r2"}

NotYet == [tag |-> "unset"]

InitConc ==
    /\ cacheFile \in {Absent, File(<<>>), File(Dumps(StaleSnapshot))}
    /\ last = NoRun
    /\ prev = "none"
    /\ req = NoCall
    /\ rec = NoCall
    /\ pc = [p \in Procs |-> "load"]
    /\ loc = [p \in Procs |-> [ids |-> <<>>, loaded |-> NotYet, ratings |-> <<>>,
                               players |-> NotYet]]

\* fide_ids = read_fide_ids_from_file(...); players = get_cached_ratings()
Loaded(p, fide_ids, players) ==
    /\ loc' = [loc EXCEPT ![p].ids = fide_ids, ![p].loaded = players,
                          ![p].players = IF players = None THEN NotYet ELSE players]
    /\ pc' = [pc EXCEPT ![p] = IF players = None THEN "fetch" ELSE "done"]
    /\ UNCHANGED <<cacheFile, last, prev, req, rec>>

Load(p) ==
    /\ pc[p] = "load"
    /\ \E fide_ids \in IdLists : Loaded(p, fide_ids, GetCachedRatings(cacheFile))

\* ratings = [get_fide_rating(fide_id) for fide_id in fide_ids]
Fetch(p) ==
    /\ pc[p] = "fetch"
    /\ \E nets \in NetSeqs(loc[p].ids) :
          loc' = [loc EXCEPT ![p].ratings = FetchedBatch(loc[p].ids, nets)]
    /\ pc' = [pc EXCEPT ![p] = "open"]
    /\ UNCHANGED <<cacheFile, last, prev, req, rec>>

\* with open(CACHE_FILE, 'w') as f: the file is created or cut to nothing
OpenForWrite(p) ==
    /\ pc[p] = "open"
    /\ cacheFile' = File(<<>>)
    /\ pc' = [pc EXCEPT ![p] = "flush"]
    /\ UNCHANGED <<loc, last, prev, req, rec>>

\* text written at offset 0 over what the file holds
WriteAtStart(old, text) == text \o SubSeq(old, Len(text) + 1, Len(old))

\* json.dump(ratings, f) and the close of f: the text reaches the file; the
\* request goes on with the ratings it fetched
Flush(p) ==
    /\ pc[p] = "flush"
    /\ cacheFile' = File(WriteAtStart(cacheFile.text, Dumps(List(loc[p].ratings))))
    /\ loc' = [loc EXCEPT ![p].players = List(loc[p].ratings)]
    /\ pc' = [pc EXCEPT ![p] = "done"]
    /\ UNCHANGED <<last, prev, req, rec>>

NextConc == \E p \in Procs : Load(p) \/ Fetch(p) \/ OpenForWrite(p) \/ Flush(p)

SpecConc == InitConc /\ [][NextConc]_vars

(***************************** direct calls of get_fide_rating *************)
\* the call to make: an identifier and what the network will answer
InitFetch ==
    /\ cacheFile = Absent
    /\ last = NoRun
    /\ prev = "none"
    /\ req \in {[called |-> FALSE, fide_id |-> i, net |-> n] : i \in Ids, n \in NetAll}
    /\ rec = NoCall
    /\ pc = NoProcs
    /\ loc = NoProcs

FetchOne ==
    /\ ~req.called
    /\ req' = [req EXCEPT !.called = TRUE]
    /\ rec' = GetFideRating(req.fide_id, req.net)
    /\ UNCHANGED <<cacheFile, last, prev, pc, loc>>

NextFetch == FetchOne

SpecFetch == InitFetch /\ [][NextFetch]_vars

(***************************** claims on get_fide_rating *******************)
RatingFields == {"standard", "rapid", "blitz"}

\* retrieval failed: requests.get raised, or the status is a 4xx or 5xx
RetrievalFailed(net) ==
    \/ net.kind \in {"ConnectionError", "ChunkedEncodingError"}
    \/ net.kind = "response" /\ net.status \in 400..599

NoTitle(net) == net.kind = "response" /\ ~net.body.title.node

\* C5: get_fide_rating never propagates an exception and always returns a
\* five-field record whose fide_id is the identifier asked for; when retrieval
\* fails or the page has no title node the record is the degraded sentinel:
\* name "Player ID {id}" and all three ratings Unrated.
C5_NeverRaises_SentinelOnFailure ==
    req.called =>
        /\ ~IsRaised(rec)
        /\ DOMAIN rec = {"name", "fide_id", "standard", "rapid", "blitz"}
        /\ rec.fide_id = req.fide_id
        /\ (RetrievalFailed(req.net) \/ NoTitle(req.net)) =>
              /\ rec.name = <<"P", "l", "a", "y", "e", "r", " ", "I", "D", " ">>
                              \o req.fide_id
              /\ \A f \in RatingFields : rec[f] = Unrated

\* C5 witness: a failed retrieval, a missing title and an entry without label
\* span have each produced the sentinel.
C5_Witness ==
    /\ req.called
    /\ req.net.kind = "response"
    /\ req.net.status = 200
    /\ req.net.body.title.node
    /\ req.net.body.cont.node
    /\ \E i \in DOMAIN req.net.body.cont.entries :
          ~req.net.body.cont.entries[i].desc.node
    /\ rec = Sentinel(req.fide_id)

PageFetched == req.called /\ req.net.kind = "response" /\ req.net.status = 200

TitleAndContainer ==
    PageFetched /\ req.net.body.title.node /\ req.net.body.cont.node

LabelOf(e) == IF e.desc.node THEN Strip(e.desc.text) ELSE <<>>

FieldLabel(f) ==
    CASE f = "standard" -> STD [] f = "rapid" -> RAPID [] f = "blitz" -> BLITZ

\* a token that reads as a negative integer: "-" and digits, not all of them 0
IsNegativeLiteral(tok) ==
    /\ Len(tok) >= 2
    /\ tok[1] = "-"
    /\ \A i \in 2..Len(tok) : tok[i] \in Digits
    /\ \E i \in 2..Len(tok) : tok[i] # "0"

\* a token that does not read as an integer at all
IsNonNumeric(tok) == \E i \in 1..Len(tok) : tok[i] \notin Digits \cup {"-", "+", "_"}

LastToken(e) == LET w == Split(Strip(e.text)) IN w[Len(w)]

\* the entries of the fetched page that carry field f's label
EntriesFor(f) ==
    {i \in DOMAIN req.net.body.cont.entries :
        LabelOf(req.net.body.cont.entries[i]) = FieldLabel(f)}

\* C6: each of standard, rapid and blitz of a returned record is a non-negative
\* integer or Unrated; a field whose deciding entry carries a negative or a
\* non-numeric token is Unrated, never the negative number and never 0.
C6_RatingsNonNegativeOrUnrated ==
    req.called =>
        /\ ~IsRaised(rec)
        /\ \A f \in RatingFields :
              \/ rec[f] = Unrated
              \/ rec[f].tag = "int" /\ rec[f].val \in Nat
        /\ TitleAndContainer =>
              \A f \in RatingFields :
                 EntriesFor(f) # {} =>
                    LET i == CHOOSE k \in EntriesFor(f) : \A j \in EntriesFor(f) : j <= k
                        tok == LastToken(req.net.body.cont.entries[i])
                    IN  (IsNegativeLiteral(tok) \/ IsNonNumeric(tok)) =>
                            rec[f] = Unrated

\* C6 witness: a page with a negative standard token and a numeric rapid token
\* gave a named record with standard Unrated and rapid the number.
C6_Witness ==
    /\ TitleAndContainer
    /\ \E i \in EntriesFor("standard") :
          LastToken(req.net.body.cont.entries[i]) = <<"-", "5">>
    /\ rec.name = <<"M", "a", "g", "n", "u", "s">>
    /\ rec.standard = Unrated
    /\ rec.rapid = Rated(2830)

\* what C9 says one entry does to the ratings so far: an entry whose label is
\* none of the three (no label node and no text included) is ignored, any
\* other entry sets its own field, to Unrated when its token is bad
ClaimedEntry(e, acc) ==
    LET label == LabelOf(e)
        w == Split(Strip(e.text))
        v == IF w = <<>> THEN Unrated
             ELSE IF IsNegativeLiteral(w[Len(w)]) \/ ~ParseInt(w[Len(w)]).ok THEN Unrated
             ELSE Rated(ParseInt(w[Len(w)]).val)
    IN  IF label = STD THEN [acc EXCEPT !.standard = v]
        ELSE IF label = RAPID THEN [acc EXCEPT !.rapid = v]
        ELSE IF label = BLITZ THEN [acc EXCEPT !.blitz = v]
        ELSE acc

RECURSIVE ClaimedRatings(_, _)
ClaimedRatings(entries, acc) ==
    IF entries = <<>> THEN acc
    ELSE ClaimedRatings(Tail(entries), ClaimedEntry(Head(entries), acc))

ClaimedRecord ==
    LET r == ClaimedRatings(req.net.body.cont.entries,
                            [standard |-> Unrated, rapid |-> Unrated, blitz |-> Unrated])
    IN  PlayerRecord(Strip(req.net.body.title.text), req.fide_id,
                     r.standard, r.rapid, r.blitz)

\* C9: with title node and ratings container present, a bad entry touches at
\* most its own field: a bad token makes that field Unrated, an entry with an
\* unknown label, no label node or no text is ignored, and the record keeps
\* the title's name and the values the other entries assigned.
C9_BadEntryAffectsOnlyItsField ==
    TitleAndContainer => rec = ClaimedRecord

\* the part of C9 the code keeps: pages whose entries all have a label node
\* and some text
C9_HoldsWhenEveryEntryHasLabelAndText ==
    (TitleAndContainer
       /\ \A i \in DOMAIN req.net.body.cont.entries :
             /\ req.net.body.cont.entries[i].desc.node
             /\ Split(Strip(req.net.body.cont.entries[i].text)) # <<>>)
    => rec = ClaimedRecord

(***************************** claims on consecutive requests *************)
\* the last request produced a table
Tabled == last.ran /\ ~IsRaised(last.response) /\ last.response.table = "rows"

IsNumeric(v) == v.tag = "int"

\* C1: in the table of show_ratings every record whose standard rating is
\* "Unrated" comes after every record whose standard rating is numeric, and
\* the numeric standard ratings are non-increasing from first to last.
C1_UnratedAfterNumeric ==
    Tabled =>
       \A i, j \in DOMAIN last.response.rows :
          i < j =>
             /\ ~(last.response.rows[i].standard = Unrated
                    /\ IsNumeric(last.response.rows[j].standard))
             /\ (IsNumeric(last.response.rows[i].standard)
                    /\ IsNumeric(last.response.rows[j].standard))
                  => last.response.rows[i].standard.val >= last.response.rows[j].standard.val

C3_CacheContentNeverRaises ==
    last.ran =>
       /\ ~IsRaised(last.loaded)
       /\ ~IsRaised(last.response)
       /\ (last.loaded # None =>
              /\ last.loaded.tag = "list"
              /\ \A i \in DOMAIN last.loaded.items : IsPlayer(last.loaded.items[i]))

\* the records get_fide_rating can return for the i-th identifier of the request
RecordsFor(i) == {GetFideRating(last.ids[i], n) : n \in NetFor(last.ids[i])}

\* players is a complete batch for the identifiers of the request
CompleteBatch(players) ==
    /\ ~IsRaised(players)
    /\ players.tag = "list"
    /\ Len(players.items) = Len(last.ids)
    /\ \A i \in DOMAIN last.ids : players.items[i] \in RecordsFor(i)

WriteFailed == last.ran /\ last.write.kind \in {"open_fails", "write_fails"}

\* C4: when the cache write of cache_ratings fails, fetch_fide_ratings still
\* returns the complete batch, one record per identifier in order, and raises
\* nothing.
C4_WriteFailureKeepsBatch ==
    WriteFailed => CompleteBatch(last.players)

\* a write that failed after truncating the file, two identifiers listed
C4_Witness ==
    /\ WriteFailed /\ last.write.kind = "write_fails"
    /\ Len(last.ids) = MaxIds
    /\ CompleteBatch(last.players)
    /\ cacheFile # File(Dumps(last.players))

\* C7 as stated: with an empty identifier list the request gets an empty
\* snapshot and makes no get_fide_rating call, whatever the cache file holds.
C7_EmptyListGivesEmptySnapshot ==
    (last.ran /\ last.ids = <<>>) => (last.players = List(<<>>) /\ last.calls = <<>>)

\* C7 amended: with an empty identifier list the request makes no
\* get_fide_rating call; it gets an empty snapshot when get_cached_ratings
\* returned None, and otherwise what get_cached_ratings returned or raised.
C7_EmptyListNoCallEmptyOnMiss ==
    (last.ran /\ last.ids = <<>>) =>
       /\ last.calls = <<>>
       /\ (last.loaded = None => last.players = List(<<>>))
       /\ (last.loaded # None => last.players = last.loaded)

\* an empty list on a miss, cached as the empty snapshot
C7_Witness ==
    /\ last.ran /\ last.ids = <<>> /\ last.loaded = None
    /\ last.players = List(<<>>)
    /\ cacheFile = File(Dumps(List(<<>>)))

Hit == last.ran /\ ~IsRaised(last.loaded) /\ last.loaded # None

Miss == last.ran /\ last.loaded = None

C8_MissStoredWholesale ==
    /\ Miss /\ last.write.kind = "ok" /\ Len(last.ids) = MaxIds
    /\ cacheFile = File(Dumps(last.players))

(***************************** claims on concurrent requests ***************)
\* the batches the fetch cycles of the requests have produced so far
FetchedSoFar == {List(loc[p].ratings) : p \in {q \in Procs : pc[q] \in {"open", "flush", "done"}
                                                  /\ loc[q].loaded = None}}

\* C10: under every interleaving of two requests the persisted snapshot is
\* only ever replaced wholesale: a snapshot a request gets from
\* get_cached_ratings, and the cache content once both requests are done, is
\* the complete batch of one single fetch cycle (or the snapshot cached before
\* the two requests), never a part of a batch and never a mixture of two.
C10_CacheReplacedWholesale ==
    /\ \A p \in Procs :
          (loc[p].loaded \notin {NotYet, None} /\ ~IsRaised(loc[p].loaded))
             => loc[p].loaded \in FetchedSoFar \cup {StaleSnapshot}
    /\ (\A p \in Procs : pc[p] = "done") =>
          \/ FetchedSoFar = {} /\ cacheFile \in {Absent, File(<<>>), File(Dumps(StaleSnapshot))}
          \/ \E b \in FetchedSoFar : cacheFile = File(Dumps(b))

====
